---- MODULE Spec2Model ----
(***************************************************************************)
(* FFUI transcoder (src/src/main.rs): the egui frame callback               *)
(* FFUIApp::update, which holds the start handler, the cancel handler and   *)
(* the per-frame reads of the shared state, and the background thread it    *)
(* spawns, which probes the duration, spawns ffmpeg, reads its progress     *)
(* stream and classifies the result.  Every step is one statement of the    *)
(* source (one lock acquisition at most); labels are source line numbers.   *)
(***************************************************************************)
EXTENDS Integers, Sequences, FiniteSets, TLC

\* ------------------------------------------------------------------ bounds
\* Number of thread slots the model can hold at once (the code keeps one).
MaxThreads == 2
\* Capacity, in lines, of the pipe between ffmpeg's stdout and the reader.
MaxPipe == 1

Workers == 1..MaxThreads

\* --------------------------------------------------------- program values
\* The three terminal markers pushed to log_text (lines 198, 205, 212).
MarkCancelled == "=== cancelled ==="
MarkFailed == "=== failed: output empty ==="
MarkCompleted == "=== completed ==="
Markers == {MarkCancelled, MarkFailed, MarkCompleted}
\* The text get_media_info returns (ffprobe's stderr).
MediaInfo == "media info"

\* Durations get_duration can return: 0 is the unwrap_or(0.0) fallback.
Durations == {0, 10}
\* Values that follow "out_time_ms=" and parse as f64 (microseconds); the
\* parse accepts a sign.
ElapsedVals == {-2500000, 2500000, 5000000, 10000000, 20000000}
\* A line of the progress stream: its key, whether the value parses as f64,
\* and the parsed value.
NoLine == [key |-> "none", ok |-> FALSE, ms |-> 0]
Lines ==
    {[key |-> "out_time_ms", ok |-> TRUE, ms |-> e] : e \in ElapsedVals}
    \cup {[key |-> "out_time_ms", ok |-> FALSE, ms |-> 0],
          [key |-> "speed", ok |-> TRUE, ms |-> 1]}
\* A line that sits in the pipe, not yet read.
PendingLine == "line"
\* What Path::exists / metadata().len() can report for the output path.
FileStates == {"missing", "empty", "nonempty"}
\* The device strings the combo box of lines 116-123 can put in self.gpu, and
\* a string that is none of them.
Devices == {"CPU", "NVIDIA", "Intel", "AMD"}
UnknownDevice == "Vulkan"
\* No command: the thread has not built one, or has spawned it.
NoCmd == <<>>
ExitCodes == {0, 1}

VARIABLES
    \* shared state of FFUIApp (lines 70-75)
    progress, running, log_text, completed, child_process, stop_flag,
    \* the UI thread: position in update(), the two buttons' clicked(), what
    \* line 126 made of the start button in this frame, and
    \* the values the frame read at lines 224 and 232
    uiPc, startClicked, startOutcome, cancelClicked, seenP, seenC,
    \* the background threads: position and locals; taken is the handle the
    \* thread has taken out of the slot at line 201 (0: none)
    wpc, duration, line, sawStop, fileOk, taken,
    \* the ffmpeg child of each thread: process state, exit code, stdout pipe,
    \* and whether the child still has the write end of the pipe open
    proc, exitCode, pipe, stdoutOpen,
    \* the output file
    outFile,
    \* the device: self.gpu as cloned by the start handler (line 135), the
    \* clone each thread captured, and the argument list each thread built
    gpu, gpu_option, cmd,
    \* the shared fields as they were when the last start() was accepted,
    \* kept until both probes (lines 140 and 145) have returned
    pre,
    \* whether the current run has read a line; whether the cancel button was
    \* clicked during the current run before any line was read; and whether it
    \* was so clicked before the thread made its check of line 193
    anyRead, unreadCancel, earlyCancel,
    \* whether the cancel button was clicked while running was true since the
    \* last accepted start(); and whether it was clicked while running was
    \* false, kept until the next run has probed the duration (line 145)
    runCancel, idleCancel

shared == <<progress, running, log_text, completed, child_process, stop_flag>>
uiVars == <<uiPc, startClicked, startOutcome, cancelClicked, seenP, seenC>>
wkVars == <<wpc, duration, line, sawStop, fileOk, taken>>
engVars == <<proc, exitCode, pipe, stdoutOpen>>
ghost == <<pre, anyRead, unreadCancel, earlyCancel, runCancel, idleCancel>>
planVars == <<gpu, gpu_option, cmd>>
vars == <<shared, uiVars, wkVars, engVars, outFile, ghost, planVars>>

\* A thread that has been spawned and has neither returned nor panicked.
Active(w) == wpc[w] \notin {"idle", "done", "panic88", "panic178", "panic201"}
\* The reader over the child's stdout exists from the spawn to the end of
\* the if-let block of lines 181-191.
ReaderOpen(w) == wpc[w] \in {"s179", "s181", "s183", "s184", "s185"}

\* A thread that has made the check of line 193 and not yet returned.
Decided(w) ==
    wpc[w] \in {"s194", "s198", "s199", "s201", "s201w", "s203", "s205", "s206",
                "s207", "s209", "s210", "s212", "s215"}
\* The start handler has been entered and has not yet spawned its thread.
InStartHandler ==
    uiPc \in {"s138", "s139", "s140", "s140w", "s141", "s142", "s144", "crashed"}

\* The value of pre outside the window in which it is kept.
NoPre == [progress |-> 0, completed |-> FALSE, log_text |-> <<>>, stop_flag |-> FALSE]

\* ------------------------------------------------------------------ mutexes
\* The five Mutex fields of FFUIApp (lines 70-74); stop_flag is an AtomicBool.
Locks == {"progress", "running", "log_text", "completed", "child_process"}

\* A frame that keeps the guard of line 224 while it locks the log.
UiHolds_ProgressKept ==
    IF uiPc = "s228" THEN {"progress"}
    ELSE IF uiPc = "s229" THEN {"progress", "log_text"}
    ELSE {}

\* The guards the UI thread holds between two statements: the guard `log`
\* of line 228 lives to the end of the closure (line 230); every other
\* guard of update() is a temporary of its own statement or condition.
UiHolds == IF uiPc = "s229" THEN {"log_text"} ELSE {}

\* The mutex the next statement of the UI thread locks.  Line 126 locks
\* running only when the button was clicked (&& short-circuits).
UiWants ==
    CASE uiPc = "s126" -> IF startClicked THEN {"running"} ELSE {}
      [] uiPc = "s138" -> {"running"}
      [] uiPc = "s139" -> {"completed"}
      [] uiPc = "s140w" -> {"log_text"}
      [] uiPc = "s141" -> {"progress"}
      [] uiPc = "s224" -> {"progress"}
      [] uiPc = "s228" -> {"log_text"}
      [] uiPc = "s232" -> {"completed"}
      [] OTHER -> {}

\* The guards a background thread holds between two statements: the guard
\* of the if-let scrutinee of line 181 lives to the end of the block (line
\* 191); the guard `log` of lines 197 and 204 lives to the end of its block
\* (lines 200 and 208); the guard of line 201 lives through wait().
WkHolds(w) ==
    CASE wpc[w] \in {"s183", "s184", "s185", "s201w"} -> {"child_process"}
      [] wpc[w] \in {"s199", "s206", "s207"} -> {"log_text"}
      [] OTHER -> {}

\* The mutex the next statement of a background thread locks.  Line 187 is
\* reached only for a line that is applied.
WkWants(w) ==
    CASE wpc[w] \in {"s179", "s181", "s194", "s201"} -> {"child_process"}
      [] wpc[w] = "s185" ->
            IF line[w].key = "out_time_ms" /\ duration[w] > 0 /\ line[w].ok
            THEN {"progress"} ELSE {}
      [] wpc[w] \in {"s198", "s205", "s212"} -> {"log_text"}
      [] wpc[w] \in {"s199", "s207", "s210"} -> {"progress"}
      [] wpc[w] \in {"s206", "s209"} -> {"completed"}
      [] wpc[w] = "s215" -> {"running"}
      [] OTHER -> {}

\* lock() returns once no other thread holds the mutex.
UiCanLock == \A w \in Workers : UiWants \cap WkHolds(w) = {}
WkCanLock(w) ==
    /\ WkWants(w) \cap UiHolds = {}
    /\ \A v \in Workers \ {w} : WkWants(w) \cap WkHolds(v) = {}

\* ------------------------------------------------------------ initial state
\* main(), lines 283-293.
Init ==
    /\ progress = 0
    /\ running = FALSE
    /\ log_text = <<>>
    /\ completed = FALSE
    /\ child_process = 0
    /\ stop_flag = FALSE
    /\ uiPc = "s126"
    /\ startClicked \in BOOLEAN
    /\ startOutcome = "none"
    /\ cancelClicked = FALSE
    /\ seenP = 0
    /\ seenC = FALSE
    /\ wpc = [w \in Workers |-> "idle"]
    /\ duration = [w \in Workers |-> 0]
    /\ line = [w \in Workers |-> NoLine]
    /\ sawStop = [w \in Workers |-> FALSE]
    /\ fileOk = [w \in Workers |-> "unknown"]
    /\ taken = [w \in Workers |-> 0]
    /\ proc = [w \in Workers |-> "none"]
    /\ exitCode = [w \in Workers |-> 0]
    /\ pipe = [w \in Workers |-> <<>>]
    /\ stdoutOpen = [w \in Workers |-> FALSE]
    /\ outFile \in FileStates
    /\ gpu = "CPU"
    /\ gpu_option = [w \in Workers |-> "CPU"]
    /\ cmd = [w \in Workers |-> NoCmd]
    /\ pre = NoPre
    /\ anyRead = FALSE
    /\ unreadCancel = FALSE
    /\ earlyCancel = FALSE
    /\ runCancel = FALSE
    /\ idleCancel = FALSE

\* ------------------------------------------------------- UI thread: update()
\* The start handler without its guard on the running flag.
CanStart_Unguarded == TRUE

\* Line 126: `!*self.running.lock().unwrap()`, the guard of the start handler.
CanStart == ~running

\* Line 126, button clicked and guard true: the handler is entered and clones
\* its inputs (lines 127-136); self.gpu holds what the combo box last chose.
StartAccepted ==
    /\ uiPc = "s126"
    /\ UiCanLock
    /\ startClicked
    /\ CanStart
    /\ uiPc' = "s138"
    /\ pre' = [progress |-> progress, completed |-> completed,
               log_text |-> log_text, stop_flag |-> stop_flag]
    /\ anyRead' = FALSE
    /\ unreadCancel' = FALSE
    /\ earlyCancel' = FALSE
    /\ runCancel' = FALSE
    /\ UNCHANGED idleCancel
    /\ startClicked' = FALSE
    /\ startOutcome' = "accepted"
    /\ \E g \in Devices : gpu' = g
    /\ UNCHANGED <<shared, cancelClicked, seenP, seenC, wkVars, engVars, outFile,
                   gpu_option, cmd>>

\* Line 126, button clicked and guard false: the handler body is skipped.
StartRejected ==
    /\ uiPc = "s126"
    /\ UiCanLock
    /\ startClicked
    /\ ~CanStart
    /\ uiPc' = "s219"
    /\ startClicked' = FALSE
    /\ startOutcome' = "rejected"
    /\ cancelClicked' \in BOOLEAN
    /\ UNCHANGED <<shared, seenP, seenC, wkVars, engVars, outFile, ghost>>
    /\ UNCHANGED planVars

\* Line 126, button not clicked.
StartNotClicked ==
    /\ uiPc = "s126"
    /\ ~startClicked
    /\ uiPc' = "s219"
    /\ cancelClicked' \in BOOLEAN
    /\ UNCHANGED <<shared, startClicked, startOutcome, seenP, seenC, wkVars,
                   engVars, outFile, ghost>>
    /\ UNCHANGED planVars

\* Line 138: *running.lock().unwrap() = true.
S138 ==
    /\ uiPc = "s138"
    /\ UiCanLock
    /\ running' = TRUE
    /\ uiPc' = "s139"
    /\ UNCHANGED <<progress, log_text, completed, child_process, stop_flag,
                   startClicked, startOutcome, cancelClicked, seenP, seenC,
                   wkVars, engVars, outFile, ghost>>
    /\ UNCHANGED planVars

\* Line 139: *completed.lock().unwrap() = false.
S139 ==
    /\ uiPc = "s139"
    /\ UiCanLock
    /\ completed' = FALSE
    /\ uiPc' = "s140"
    /\ UNCHANGED <<progress, running, log_text, child_process, stop_flag,
                   startClicked, startOutcome, cancelClicked, seenP, seenC,
                   wkVars, engVars, outFile, ghost>>
    /\ UNCHANGED planVars

\* Line 140, right operand: get_media_info runs ffprobe on the UI thread
\* (lines 92-98).  It returns the text, or ffprobe cannot be launched and
\* the panic of line 96 unwinds the UI thread: the application is gone.
S140_Probe ==
    /\ uiPc = "s140"
    /\ \E launched \in BOOLEAN :
          uiPc' = IF launched THEN "s140w" ELSE "crashed"
    /\ UNCHANGED <<shared, startClicked, startOutcome, cancelClicked, seenP, seenC,
                   wkVars, engVars, outFile, ghost>>
    /\ UNCHANGED planVars

\* Line 140, assignment: *log_text.lock().unwrap() = <the text>.
S140_Store ==
    /\ uiPc = "s140w"
    /\ UiCanLock
    /\ log_text' = <<MediaInfo>>
    /\ uiPc' = "s141"
    /\ UNCHANGED <<progress, running, completed, child_process, stop_flag,
                   startClicked, startOutcome, cancelClicked, seenP, seenC,
                   wkVars, engVars, outFile, ghost>>
    /\ UNCHANGED planVars

\* Line 141: *progress.lock().unwrap() = 0.0.
S141 ==
    /\ uiPc = "s141"
    /\ UiCanLock
    /\ progress' = 0
    /\ uiPc' = "s142"
    /\ UNCHANGED <<running, log_text, completed, child_process, stop_flag,
                   startClicked, startOutcome, cancelClicked, seenP, seenC,
                   wkVars, engVars, outFile, ghost>>
    /\ UNCHANGED planVars

\* A start handler that leaves the cancel flag as it finds it.
ClearedFlag_Kept == stop_flag

\* Line 142: the value stored by stop_flag.store(false, Ordering::SeqCst).
ClearedFlag == FALSE
S142 ==
    /\ uiPc = "s142"
    /\ stop_flag' = ClearedFlag
    /\ uiPc' = "s144"
    /\ UNCHANGED <<progress, running, log_text, completed, child_process,
                   startClicked, startOutcome, cancelClicked, seenP, seenC,
                   wkVars, engVars, outFile, ghost>>
    /\ UNCHANGED planVars

\* Line 144: thread::spawn.  The new thread takes the lowest slot that holds
\* no live thread and starts at line 145 with fresh locals; the handler's
\* clone of the device moves into the closure.
FreeSlots == {w \in Workers : ~Active(w)}
S144 ==
    /\ uiPc = "s144"
    /\ FreeSlots # {}
    /\ LET w == CHOOSE x \in FreeSlots : \A y \in FreeSlots : x <= y IN
          /\ wpc' = [wpc EXCEPT ![w] = "s145"]
          /\ duration' = [duration EXCEPT ![w] = 0]
          /\ line' = [line EXCEPT ![w] = NoLine]
          /\ sawStop' = [sawStop EXCEPT ![w] = FALSE]
          /\ fileOk' = [fileOk EXCEPT ![w] = "unknown"]
          /\ taken' = [taken EXCEPT ![w] = 0]
          /\ proc' = [proc EXCEPT ![w] = "none"]
          /\ exitCode' = [exitCode EXCEPT ![w] = 0]
          /\ pipe' = [pipe EXCEPT ![w] = <<>>]
          /\ stdoutOpen' = [stdoutOpen EXCEPT ![w] = FALSE]
          /\ gpu_option' = [gpu_option EXCEPT ![w] = gpu]
          /\ cmd' = [cmd EXCEPT ![w] = NoCmd]
    /\ gpu' = "CPU"
    /\ uiPc' = "s219"
    /\ cancelClicked' \in BOOLEAN
    /\ UNCHANGED <<shared, startClicked, startOutcome, seenP, seenC, outFile, ghost>>

\* Lines 219-221: the cancel button; stop_flag.store(true) when clicked.
S219 ==
    /\ uiPc = "s219"
    /\ stop_flag' = (IF cancelClicked THEN TRUE ELSE stop_flag)
    /\ unreadCancel' = (unreadCancel \/ (cancelClicked /\ running /\ ~anyRead))
    /\ earlyCancel' = (earlyCancel \/ (cancelClicked /\ running /\ ~anyRead
                                        /\ \A w \in Workers : ~Decided(w)))
    /\ runCancel' = (runCancel \/ (cancelClicked /\ running))
    /\ idleCancel' = (idleCancel \/ (cancelClicked /\ ~running))
    /\ uiPc' = "s224"
    /\ cancelClicked' = FALSE
    /\ startOutcome' = "none"
    /\ UNCHANGED <<progress, running, log_text, completed, child_process,
                   startClicked, seenP, seenC, wkVars, engVars, outFile, pre, anyRead>>
    /\ UNCHANGED planVars

\* Line 224: let p = *self.progress.lock().unwrap().
S224 ==
    /\ uiPc = "s224"
    /\ UiCanLock
    /\ seenP' = progress
    /\ uiPc' = "s228"
    /\ UNCHANGED <<shared, startClicked, startOutcome, cancelClicked, seenC,
                   wkVars, engVars, outFile, ghost>>
    /\ UNCHANGED planVars

\* Line 228: let log = self.log_text.lock().unwrap().
S228 ==
    /\ uiPc = "s228"
    /\ UiCanLock
    /\ uiPc' = "s229"
    /\ UNCHANGED <<shared, startClicked, startOutcome, cancelClicked, seenP, seenC,
                   wkVars, engVars, outFile, ghost>>
    /\ UNCHANGED planVars

\* Lines 229-230: the log is handed to the widget and the guard is dropped
\* at the end of the closure; the frame keeps nothing of the text.
S229 ==
    /\ uiPc = "s229"
    /\ uiPc' = "s232"
    /\ UNCHANGED <<shared, startClicked, startOutcome, cancelClicked, seenP, seenC,
                   wkVars, engVars, outFile, ghost>>
    /\ UNCHANGED planVars

\* Line 232: *self.completed.lock().unwrap().
S232 ==
    /\ uiPc = "s232"
    /\ UiCanLock
    /\ seenC' = completed
    /\ uiPc' = "s237"
    /\ UNCHANGED <<shared, startClicked, startOutcome, cancelClicked, seenP,
                   wkVars, engVars, outFile, ghost>>
    /\ UNCHANGED planVars

\* Line 237: request_repaint; update() returns, its locals are dropped, and
\* it is called again for the next frame.  Each button's clicked() is drawn
\* where the frame evaluates it (lines 126 and 219).
S237 ==
    /\ uiPc = "s237"
    /\ uiPc' = "s126"
    /\ startClicked' \in BOOLEAN
    /\ seenP' = 0
    /\ seenC' = FALSE
    /\ UNCHANGED <<shared, startOutcome, cancelClicked, wkVars, engVars, outFile, ghost>>
    /\ UNCHANGED planVars

UiStep ==
    \/ StartAccepted \/ StartRejected \/ StartNotClicked
    \/ S138 \/ S139 \/ S140_Probe \/ S140_Store \/ S141 \/ S142 \/ S144
    \/ S219 \/ S224 \/ S228 \/ S229 \/ S232 \/ S237

\* ---------------------------------------- background thread: lines 144-216
\* Every step needs the application to be alive: a panic on the UI thread
\* ends the process and its threads with it.
AppAlive == uiPc # "crashed"

\* A planner that picks the software encoder whatever the device.
Codec_Software(g) == "libx264"

\* Lines 147-152: the codec for the device.
Codec(g) ==
    CASE g = "NVIDIA" -> "h264_nvenc"
      [] g = "Intel" -> "h264_qsv"
      [] g = "AMD" -> "h264_amf"
      [] OTHER -> "libx264"

\* Lines 155-162: the hardware-acceleration arguments for the device.
HwAccelArgs(g) ==
    IF g # "CPU"
    THEN CASE g = "NVIDIA" -> <<"-hwaccel", "cuda">>
           [] g = "Intel" -> <<"-hwaccel", "qsv">>
           [] g = "AMD" -> <<"-hwaccel", "dxva2">>
           [] OTHER -> <<>>
    ELSE <<>>

\* Lines 154-171: the arguments of the ffmpeg command, in the order given.
CmdArgs(g) ==
    HwAccelArgs(g) \o <<"-y", "-i", "input", "-c:v", Codec(g), "output",
                        "-progress", "pipe:1", "-nostats">>

\* Line 145: get_duration (lines 79-90).  ffprobe cannot be launched and the
\* expect of line 88 panics the thread, or the parsed duration (0.0 when the
\* output does not parse) is returned and the thread builds the command
\* (lines 147-173).
W145(w) ==
    /\ AppAlive
    /\ wpc[w] = "s145"
    /\ \/ /\ wpc' = [wpc EXCEPT ![w] = "panic88"]
          /\ gpu_option' = [gpu_option EXCEPT ![w] = "CPU"]
          /\ UNCHANGED duration
          /\ UNCHANGED <<pre, idleCancel>>
          /\ UNCHANGED cmd
       \/ \E d \in Durations :
             /\ duration' = [duration EXCEPT ![w] = d]
             /\ cmd' = [cmd EXCEPT ![w] = CmdArgs(gpu_option[w])]
             /\ wpc' = [wpc EXCEPT ![w] = "s178"]
             /\ pre' = NoPre
             /\ idleCancel' = FALSE
             /\ UNCHANGED gpu_option
    /\ UNCHANGED <<shared, uiVars, line, sawStop, fileOk, engVars, outFile,
                   anyRead, unreadCancel, earlyCancel, runCancel, gpu>>
    /\ UNCHANGED taken

\* Line 178: cmd.spawn().expect(..).  The spawn fails and the thread panics,
\* or the child is live with an empty stdout pipe.  Either way the command
\* and the device string are not used again.
W178(w) ==
    /\ AppAlive
    /\ wpc[w] = "s178"
    /\ \/ /\ wpc' = [wpc EXCEPT ![w] = "panic178"]
          /\ UNCHANGED engVars
       \/ /\ wpc' = [wpc EXCEPT ![w] = "s179"]
          /\ proc' = [proc EXCEPT ![w] = "live"]
          /\ exitCode' = [exitCode EXCEPT ![w] = 0]
          /\ pipe' = [pipe EXCEPT ![w] = <<>>]
          /\ stdoutOpen' = [stdoutOpen EXCEPT ![w] = TRUE]
    /\ gpu_option' = [gpu_option EXCEPT ![w] = "CPU"]
    /\ cmd' = [cmd EXCEPT ![w] = NoCmd]
    /\ UNCHANGED <<shared, uiVars, duration, line, sawStop, fileOk, outFile, ghost, gpu>>
    /\ UNCHANGED taken

\* Line 179: *child_arc.lock().unwrap() = Some(child).
W179(w) ==
    /\ AppAlive
    /\ wpc[w] = "s179"
    /\ WkCanLock(w)
    /\ child_process' = w
    /\ wpc' = [wpc EXCEPT ![w] = "s181"]
    /\ UNCHANGED <<progress, running, log_text, completed, stop_flag, uiVars,
                   duration, line, sawStop, fileOk, engVars, outFile, ghost>>
    /\ UNCHANGED planVars
    /\ UNCHANGED taken

\* Line 181: child_arc.lock().unwrap().as_mut().unwrap().stdout.take(); the
\* stdout was piped (line 172), so the take yields Some and the loop starts.
W181(w) ==
    /\ AppAlive
    /\ wpc[w] = "s181"
    /\ WkCanLock(w)
    /\ wpc' = [wpc EXCEPT ![w] = "s183"]
    /\ UNCHANGED <<shared, uiVars, duration, line, sawStop, fileOk, engVars,
                   outFile, ghost>>
    /\ UNCHANGED planVars
    /\ UNCHANGED taken

\* Line 183: reader.lines().flatten() yields the next line, blocking until
\* the pipe holds one; it ends when the pipe is empty and its write end is
\* closed, whether or not the child still runs.  The text of the line is
\* whatever ffmpeg wrote: it is drawn here, where it is first looked at.  A
\* line that is not valid UTF-8 is an Err item, which flatten() drops: the
\* loop body does not run for it and the next line is awaited.
W183(w) ==
    /\ AppAlive
    /\ wpc[w] = "s183"
    /\ \/ /\ pipe[w] # <<>>
          /\ \E l \in Lines : line' = [line EXCEPT ![w] = l]
          /\ pipe' = [pipe EXCEPT ![w] = Tail(pipe[w])]
          /\ wpc' = [wpc EXCEPT ![w] = "s184"]
          /\ anyRead' = TRUE
       \/ /\ pipe[w] # <<>>
          /\ pipe' = [pipe EXCEPT ![w] = Tail(pipe[w])]
          /\ UNCHANGED <<line, wpc, anyRead>>
       \/ /\ pipe[w] = <<>>
          /\ ~stdoutOpen[w]
          /\ wpc' = [wpc EXCEPT ![w] = "s193"]
          /\ UNCHANGED <<line, pipe, anyRead>>
    /\ UNCHANGED <<shared, uiVars, duration, sawStop, fileOk, proc, exitCode,
                   stdoutOpen, outFile, pre, unreadCancel, earlyCancel, runCancel,
                   idleCancel>>
    /\ UNCHANGED planVars
    /\ UNCHANGED taken

\* A thread that never sees the cancel request.
StopLoad_Blind == FALSE

\* Lines 184 and 193: stop_flag.load(Ordering::SeqCst).
StopLoad == stop_flag

\* Line 184: if stop_flag.load() { break; }.  The break leaves the if-let
\* block, which drops the reader and what the pipe still holds.
W184(w) ==
    /\ AppAlive
    /\ wpc[w] = "s184"
    /\ IF StopLoad
       THEN /\ wpc' = [wpc EXCEPT ![w] = "s193"]
            /\ line' = [line EXCEPT ![w] = NoLine]
            /\ pipe' = [pipe EXCEPT ![w] = <<>>]
       ELSE /\ wpc' = [wpc EXCEPT ![w] = "s185"]
            /\ UNCHANGED <<line, pipe>>
    /\ UNCHANGED <<shared, uiVars, duration, sawStop, fileOk, proc, exitCode,
                   stdoutOpen, outFile, ghost>>
    /\ UNCHANGED planVars
    /\ UNCHANGED taken

\* The fraction ms / (duration*1_000_000.0) stored without the factor 100.
ProgressOf_Fraction(ms, d) == ms \div (d * 1000000)

\* Line 187: ((ms / (duration*1_000_000.0)) * 100.0) as f32.  The values of
\* ElapsedVals and Durations make the quotient a whole number.
ProgressOf(ms, d) == (ms * 100) \div (d * 1000000)

\* Lines 185-186: the line starts with "out_time_ms=", the duration is
\* positive and the rest of the line parses as f64.
Applies(l, d) == l.key = "out_time_ms" /\ d > 0 /\ l.ok

\* Lines 185-189: the progress update for one line.
W185(w) ==
    /\ AppAlive
    /\ wpc[w] = "s185"
    /\ WkCanLock(w)
    /\ progress' = (IF Applies(line[w], duration[w])
                    THEN ProgressOf(line[w].ms, duration[w])
                    ELSE progress)
    /\ line' = [line EXCEPT ![w] = NoLine]
    /\ wpc' = [wpc EXCEPT ![w] = "s183"]
    /\ UNCHANGED <<running, log_text, completed, child_process, stop_flag,
                   uiVars, duration, sawStop, fileOk, engVars, outFile, ghost>>
    /\ UNCHANGED planVars
    /\ UNCHANGED taken

\* Line 193: if stop_flag.load() { .. } else { .. }.
W193(w) ==
    /\ AppAlive
    /\ wpc[w] = "s193"
    /\ sawStop' = [sawStop EXCEPT ![w] = StopLoad]
    /\ wpc' = [wpc EXCEPT ![w] = IF StopLoad THEN "s194" ELSE "s201"]
    /\ pipe' = [pipe EXCEPT ![w] = <<>>]
    /\ UNCHANGED <<shared, uiVars, duration, line, fileOk, proc, exitCode,
                   stdoutOpen, outFile, ghost>>
    /\ UNCHANGED planVars
    /\ UNCHANGED taken

\* A push that replaces the text instead of extending it.
Push_Overwrite(log, m) == <<m>>

\* Lines 198, 205, 212: log.push_str(marker) extends the text at its end.
Push(log, m) == Append(log, m)

\* A take that leaves the handle in the slot.
EmptiedSlot_Kept == child_process

\* Lines 194 and 201: Option::take leaves None in the slot.
EmptiedSlot == 0

\* Lines 194-196: take the handle out of the slot and kill the child it
\* names; kill's result is discarded, and nothing waits for the child.
W194(w) ==
    /\ AppAlive
    /\ wpc[w] = "s194"
    /\ WkCanLock(w)
    /\ child_process' = EmptiedSlot
    /\ IF child_process # 0 /\ proc[child_process] = "live"
       THEN /\ proc' = [proc EXCEPT ![child_process] = "killed"]
            /\ stdoutOpen' = [stdoutOpen EXCEPT ![child_process] = FALSE]
       ELSE UNCHANGED <<proc, stdoutOpen>>
    /\ wpc' = [wpc EXCEPT ![w] = "s198"]
    /\ UNCHANGED <<progress, running, log_text, completed, stop_flag, uiVars,
                   duration, line, sawStop, fileOk, exitCode, pipe, outFile, ghost>>
    /\ UNCHANGED planVars
    /\ UNCHANGED taken

\* Lines 197-198: log.push_str(<cancelled marker>).
W198(w) ==
    /\ AppAlive
    /\ wpc[w] = "s198"
    /\ WkCanLock(w)
    /\ log_text' = Push(log_text, MarkCancelled)
    /\ wpc' = [wpc EXCEPT ![w] = "s199"]
    /\ UNCHANGED <<progress, running, completed, child_process, stop_flag,
                   uiVars, duration, line, sawStop, fileOk, engVars, outFile, ghost>>
    /\ UNCHANGED planVars
    /\ UNCHANGED taken

\* The cancel branch without its reset of the progress.
CancelledProgress_Kept == progress

\* Line 199: the value stored by *progress.lock().unwrap() = 0.0.
CancelledProgress == 0
W199(w) ==
    /\ AppAlive
    /\ wpc[w] = "s199"
    /\ WkCanLock(w)
    /\ progress' = CancelledProgress
    /\ wpc' = [wpc EXCEPT ![w] = "s215"]
    /\ UNCHANGED <<running, log_text, completed, child_process, stop_flag,
                   uiVars, duration, line, sawStop, fileOk, engVars, outFile, ghost>>
    /\ UNCHANGED planVars
    /\ UNCHANGED taken

\* Line 201, child_arc.lock().unwrap().take().unwrap(): the mutex is locked
\* and the handle taken out of the slot.  An empty slot panics the unwrap;
\* otherwise the thread, still holding the guard, enters wait() on the
\* handle it took.
W201(w) ==
    /\ AppAlive
    /\ wpc[w] = "s201"
    /\ WkCanLock(w)
    /\ \/ /\ child_process = 0
          /\ wpc' = [wpc EXCEPT ![w] = "panic201"]
          /\ UNCHANGED <<child_process, taken>>
       \/ /\ child_process # 0
          /\ taken' = [taken EXCEPT ![w] = child_process]
          /\ child_process' = EmptiedSlot
          /\ wpc' = [wpc EXCEPT ![w] = "s201w"]
    /\ UNCHANGED <<progress, running, log_text, completed, stop_flag, uiVars,
                   duration, line, sawStop, fileOk, engVars, outFile, ghost>>
    /\ UNCHANGED planVars

\* Line 201, .wait(): the call blocks, with the guard of child_process held,
\* until the child has gone; the child is reaped, the exit status dropped
\* and the guard released at the end of the statement.
W201_Wait(w) ==
    /\ AppAlive
    /\ wpc[w] = "s201w"
    /\ proc[taken[w]] # "live"
    /\ proc' = [proc EXCEPT ![taken[w]] = "reaped"]
    /\ taken' = [taken EXCEPT ![w] = 0]
    /\ wpc' = [wpc EXCEPT ![w] = "s203"]
    /\ UNCHANGED <<shared, uiVars, duration, line, sawStop, fileOk, exitCode,
                   pipe, stdoutOpen, outFile, ghost>>
    /\ UNCHANGED planVars

\* A classification that also fails a run whose exit status is not 0.
OutputBad_ByExitCode(file, code) == file \in {"missing", "empty"} \/ code # 0

\* Line 203: !path.exists() || path.metadata().map(|m| m.len()).unwrap_or(0) == 0,
\* as a function of the output file and of the exit status wait() returned
\* (which line 201 discards).
OutputBad(file, code) == file \in {"missing", "empty"}

\* Line 203: the condition is evaluated once and selects the branch.
W203(w) ==
    /\ AppAlive
    /\ wpc[w] = "s203"
    /\ LET bad == OutputBad(outFile, exitCode[w]) IN
          /\ fileOk' = [fileOk EXCEPT ![w] = IF bad THEN "bad" ELSE "good"]
          /\ wpc' = [wpc EXCEPT ![w] = IF bad THEN "s205" ELSE "s209"]
    /\ UNCHANGED <<shared, uiVars, duration, line, sawStop, engVars, outFile, ghost>>
    /\ UNCHANGED planVars
    /\ UNCHANGED taken

\* Lines 204-205: log.push_str(<failed marker>).
W205(w) ==
    /\ AppAlive
    /\ wpc[w] = "s205"
    /\ WkCanLock(w)
    /\ log_text' = Push(log_text, MarkFailed)
    /\ wpc' = [wpc EXCEPT ![w] = "s206"]
    /\ UNCHANGED <<progress, running, completed, child_process, stop_flag,
                   uiVars, duration, line, sawStop, fileOk, engVars, outFile, ghost>>
    /\ UNCHANGED planVars
    /\ UNCHANGED taken

\* Line 206: *completed.lock().unwrap() = false.
W206(w) ==
    /\ AppAlive
    /\ wpc[w] = "s206"
    /\ WkCanLock(w)
    /\ completed' = FALSE
    /\ wpc' = [wpc EXCEPT ![w] = "s207"]
    /\ UNCHANGED <<progress, running, log_text, child_process, stop_flag,
                   uiVars, duration, line, sawStop, fileOk, engVars, outFile, ghost>>
    /\ UNCHANGED planVars
    /\ UNCHANGED taken

\* Line 207: *progress.lock().unwrap() = 0.0.
W207(w) ==
    /\ AppAlive
    /\ wpc[w] = "s207"
    /\ WkCanLock(w)
    /\ progress' = 0
    /\ wpc' = [wpc EXCEPT ![w] = "s215"]
    /\ UNCHANGED <<running, log_text, completed, child_process, stop_flag,
                   uiVars, duration, line, sawStop, fileOk, engVars, outFile, ghost>>
    /\ UNCHANGED planVars
    /\ UNCHANGED taken

\* Line 209: *completed.lock().unwrap() = true.
W209(w) ==
    /\ AppAlive
    /\ wpc[w] = "s209"
    /\ WkCanLock(w)
    /\ completed' = TRUE
    /\ wpc' = [wpc EXCEPT ![w] = "s210"]
    /\ UNCHANGED <<progress, running, log_text, child_process, stop_flag,
                   uiVars, duration, line, sawStop, fileOk, engVars, outFile, ghost>>
    /\ UNCHANGED planVars
    /\ UNCHANGED taken

\* Line 210: *progress.lock().unwrap() = 100.0.
W210(w) ==
    /\ AppAlive
    /\ wpc[w] = "s210"
    /\ WkCanLock(w)
    /\ progress' = 100
    /\ wpc' = [wpc EXCEPT ![w] = "s212"]
    /\ UNCHANGED <<running, log_text, completed, child_process, stop_flag,
                   uiVars, duration, line, sawStop, fileOk, engVars, outFile, ghost>>
    /\ UNCHANGED planVars
    /\ UNCHANGED taken

\* Lines 211-212: log.push_str(<completed marker>).
W212(w) ==
    /\ AppAlive
    /\ wpc[w] = "s212"
    /\ WkCanLock(w)
    /\ log_text' = Push(log_text, MarkCompleted)
    /\ wpc' = [wpc EXCEPT ![w] = "s215"]
    /\ UNCHANGED <<progress, running, completed, child_process, stop_flag,
                   uiVars, duration, line, sawStop, fileOk, engVars, outFile, ghost>>
    /\ UNCHANGED planVars
    /\ UNCHANGED taken

\* Line 215: *running.lock().unwrap() = false; the closure returns and the
\* thread ends.
W215(w) ==
    /\ AppAlive
    /\ wpc[w] = "s215"
    /\ WkCanLock(w)
    /\ running' = FALSE
    /\ wpc' = [wpc EXCEPT ![w] = "done"]
    /\ duration' = [duration EXCEPT ![w] = 0]
    /\ UNCHANGED <<progress, log_text, completed, child_process, stop_flag,
                   uiVars, line, sawStop, fileOk, engVars, outFile, ghost>>
    /\ UNCHANGED planVars
    /\ UNCHANGED taken

WorkerStep ==
    \E w \in Workers :
        \/ W145(w) \/ W178(w) \/ W179(w) \/ W181(w) \/ W183(w) \/ W184(w)
        \/ W185(w) \/ W193(w) \/ W194(w) \/ W198(w) \/ W199(w) \/ W201(w)
        \/ W201_Wait(w)
        \/ W203(w) \/ W205(w) \/ W206(w) \/ W207(w) \/ W209(w) \/ W210(w)
        \/ W212(w) \/ W215(w)

\* ------------------------------------------------- the ffmpeg child process
\* ffmpeg writes one line of its -progress output (lines 169-172) while the
\* read end of the pipe is open and the pipe has room.  The pipe keeps one
\* PendingLine for each line written and not yet read.
EngineEmit(w) ==
    /\ AppAlive
    /\ proc[w] = "live"
    /\ stdoutOpen[w]
    /\ ReaderOpen(w)
    /\ Len(pipe[w]) < MaxPipe
    /\ pipe' = [pipe EXCEPT ![w] = Append(pipe[w], PendingLine)]
    /\ UNCHANGED <<shared, uiVars, wkVars, proc, exitCode, stdoutOpen, outFile, ghost>>
    /\ UNCHANGED planVars

\* ffmpeg exits, with some exit status, which closes its end of the pipe.
EngineExit(w) ==
    /\ AppAlive
    /\ proc[w] = "live"
    /\ \E c \in ExitCodes : exitCode' = [exitCode EXCEPT ![w] = c]
    /\ proc' = [proc EXCEPT ![w] = "exited"]
    /\ stdoutOpen' = [stdoutOpen EXCEPT ![w] = FALSE]
    /\ UNCHANGED <<shared, uiVars, wkVars, pipe, outFile, ghost>>
    /\ UNCHANGED planVars

\* The child closes its stdout and runs on; what it wrote before stays in
\* the pipe.
EngineClose(w) ==
    /\ AppAlive
    /\ proc[w] = "live"
    /\ stdoutOpen[w]
    /\ stdoutOpen' = [stdoutOpen EXCEPT ![w] = FALSE]
    /\ UNCHANGED <<shared, uiVars, wkVars, proc, exitCode, pipe, outFile, ghost>>
    /\ UNCHANGED planVars

\* ffmpeg creates, truncates or fills the output file (line 168, "-y").
EngineWrite(w) ==
    /\ AppAlive
    /\ proc[w] = "live"
    /\ \E f \in FileStates \ {outFile} : outFile' = f
    /\ UNCHANGED <<shared, uiVars, wkVars, engVars, ghost>>
    /\ UNCHANGED planVars

EngineStep ==
    \E w \in Workers :
        EngineEmit(w) \/ EngineExit(w) \/ EngineClose(w) \/ EngineWrite(w)
\* The steps the claims' assumption is about: ffmpeg emits a line or exits.
EngineProgress == \E w \in Workers : EngineEmit(w) \/ EngineExit(w)

\* ------------------------------------------------------------ specification
Next == UiStep \/ WorkerStep \/ EngineStep

Spec == Init /\ [][Next]_vars

\* update() is called for every frame (line 237 requests the next repaint);
\* the scheduler runs the spawned thread, which gets a mutex it waits for
\* when that mutex is released again and again (the UI thread holds log_text
\* for a part of every frame); ffmpeg keeps emitting lines or exits.  The
\* buttons and the output file are left free.
FairSpec ==
    Spec /\ WF_vars(UiStep) /\ SF_vars(WorkerStep) /\ WF_vars(EngineProgress)

\* ==================================================================== claims
ActiveThreads == {w \in Workers : Active(w)}
LiveProcs == {w \in Workers : proc[w] = "live"}
\* The thread has returned and no later start() has touched the state.
Settled(w) == wpc[w] = "done" /\ ~InStartHandler

\* C1: in every reachable state completed=true implies running=false and
\* progress=100, and a frame that read completed=true (line 232) read
\* progress=100 (line 224).
C1_CompletedImpliesStoppedAtHundred ==
    /\ completed => (~running /\ progress = 100)
    /\ (uiPc = "s237" /\ seenC) => seenP = 100

\* C2: a start click made while running=true skips the handler: the frame
\* goes on to the cancel button, and no thread, no process and none of
\* progress, completed, log_text, stop_flag, running changes in that step.
C2_RejectedStartChangesNothing ==
    [][(uiPc = "s126" /\ startClicked /\ running /\ uiPc' # uiPc)
         => /\ uiPc' = "s219"
            /\ UNCHANGED <<progress, completed, log_text, stop_flag, running,
                           child_process, wpc, proc, pipe>>]_vars

\* C2 witness: a start click was rejected while a run with progress 25 and
\* a pending cancel request was in flight.
C2_Witness ==
    /\ uiPc = "s219"
    /\ startOutcome = "rejected"
    /\ running
    /\ progress = 25
    /\ stop_flag
    /\ ActiveThreads # {}

\* C3: at most one background thread is active and at most one ffmpeg
\* process is live, in every reachable state.
C3_AtMostOneThreadAndProcess ==
    /\ Cardinality(ActiveThreads) <= 1
    /\ Cardinality(LiveProcs) <= 1

\* C3 witness: one thread is active and its process live while a cancel
\* request is pending and a further start click has just been rejected.
C3_Witness ==
    /\ Cardinality(ActiveThreads) = 1
    /\ Cardinality(LiveProcs) = 1
    /\ startOutcome = "rejected"
    /\ stop_flag
    /\ child_process # 0

\* The cancel flag is set, the session is running, and the start handler is
\* not in the middle of its reset: the flag was set during this run.
CancelPending == stop_flag /\ running /\ ~InStartHandler

\* C4: once the cancel flag has been set during a running session, running
\* eventually becomes false.
C4_CancelLeadsToStopped == CancelPending ~> ~running

\* The terminal state Cancelled.
CancelledState ==
    /\ ~running
    /\ log_text = <<MediaInfo, MarkCancelled>>
    /\ progress = 0
    /\ ~completed

\* C5 as stated: a run in which cancel was clicked before any line was read
\* ends in the state Cancelled.
C5_UnreadCancelEndsCancelled ==
    (unreadCancel /\ ~running /\ ~InStartHandler) => CancelledState

\* The ffmpeg child has been spawned and the thread has not yet made the
\* check of line 193.
InReadLoop(w) == wpc[w] \in {"s179", "s181", "s183", "s184", "s185", "s193"}
\* The thread is about to load the cancel flag: the iterator has yielded a
\* line (line 184) or has ended (line 193).
AtFlagLoad(w) == InReadLoop(w) /\ wpc[w] \in {"s184", "s193"}

\* C5 amended: when cancel was clicked during a run before any line was read
\* and before the thread's check of line 193, no line is applied and neither
\* the wait nor the classification is entered (progress stays 0, completed
\* stays false), the run can only end in the state Cancelled, and once the
\* iterator has yielded a line or has ended the run does end there.
C5_EarlyCancelEndsCancelled ==
    /\ [](earlyCancel =>
            /\ progress = 0
            /\ ~completed
            /\ \A w \in Workers :
                  wpc[w] \notin {"s185", "s201", "s201w", "s203", "s205", "s206",
                                 "s207", "s209", "s210", "s212"}
            /\ (~running /\ ~InStartHandler) => CancelledState)
    /\ ((earlyCancel /\ \E w \in Workers : AtFlagLoad(w))
           ~> (earlyCancel /\ CancelledState))

\* C5 witness: the run was cancelled before any line was read, ffmpeg had
\* emitted a line by the time the thread looked, and the state is Cancelled.
C5_Witness ==
    /\ earlyCancel
    /\ anyRead
    /\ CancelledState
    /\ \E w \in Workers : Settled(w) /\ proc[w] = "killed"

\* C6: a thread that saw the cancel flag at line 193 goes through the cancel
\* branch only: it never waits for the child nor inspects the output file,
\* the child is not live once line 194 has run, and the branch ends with the
\* cancelled marker as the only marker of the log, progress=0,
\* completed=false and, once the thread has returned, running=false.
C6_CancelBranch ==
    \A w \in Workers :
        (sawStop[w] /\ (Decided(w) \/ Settled(w))) =>
            /\ wpc[w] \in {"s194", "s198", "s199", "s215", "done"}
            /\ fileOk[w] = "unknown"
            /\ proc[w] # "reaped"
            /\ wpc[w] # "s194" => (proc[w] \in {"killed", "exited"} /\ child_process = 0)
            /\ wpc[w] \in {"s194", "s198"} => log_text = <<MediaInfo>>
            /\ wpc[w] \in {"s199", "s215", "done"} =>
                   log_text = <<MediaInfo, MarkCancelled>>
            /\ wpc[w] \in {"s215", "done"} => progress = 0
            /\ ~completed
            /\ wpc[w] = "done" => ~running

\* C6 witness: cancel came after the first progress line had been applied;
\* the thread has returned, the live child was killed, progress is back to 0.
C6_Witness ==
    \E w \in Workers :
        /\ Settled(w)
        /\ sawStop[w]
        /\ ~earlyCancel
        /\ anyRead
        /\ proc[w] = "killed"
        /\ CancelledState

\* C7: a thread that did not see the cancel flag at line 193 waits for the
\* child (it is reaped before the classification), classifies by the output
\* file alone, whatever the exit code, and ends Failed (failed marker,
\* progress=0, completed=false) or Completed (completed marker,
\* progress=100, completed=true).
C7_ClassifiedByOutputFile ==
    \A w \in Workers :
        (~sawStop[w] /\ (wpc[w] \in {"s203", "s205", "s206", "s207", "s209",
                                     "s210", "s212", "s215"} \/ Settled(w))) =>
            /\ proc[w] = "reaped"
            /\ wpc[w] # "s203" =>
                   (fileOk[w] = "bad") = (outFile \in {"missing", "empty"})
            /\ wpc[w] # "s203" => fileOk[w] \in {"bad", "good"}
            /\ (wpc[w] \in {"s215", "done"} /\ fileOk[w] = "bad") =>
                   /\ log_text = <<MediaInfo, MarkFailed>>
                   /\ progress = 0
                   /\ ~completed
            /\ (wpc[w] \in {"s215", "done"} /\ fileOk[w] = "good") =>
                   /\ log_text = <<MediaInfo, MarkCompleted>>
                   /\ progress = 100
                   /\ completed

\* C7 witness: ffmpeg exited with status 1 and left a non-empty output file;
\* the run ended Completed.
C7_Witness ==
    \E w \in Workers :
        /\ Settled(w)
        /\ ~sawStop[w]
        /\ exitCode[w] = 1
        /\ outFile = "nonempty"
        /\ completed
        /\ progress = 100
        /\ ~running

\* C8: a failed spawn of ffmpeg (line 178) does not leave running=true.
C8_SpawnFailureStopsRunning ==
    \A w \in Workers : wpc[w] = "panic178" => ~running

\* C9: when ffprobe cannot be launched, in get_media_info (line 96) or in
\* get_duration (line 88), no ffmpeg process has been spawned, running is
\* false and the other fields are as they were before start().
C9_ProbeFailureLeavesStateUntouched ==
    (uiPc = "crashed" \/ \E w \in Workers : wpc[w] = "panic88") =>
        /\ \A w \in Workers : proc[w] # "live"
        /\ ~running
        /\ progress = pre.progress
        /\ completed = pre.completed
        /\ log_text = pre.log_text

\* C10: while the first probe is in progress or has returned, every field
\* has its reset value: progress=0, running=true, completed=false, the log
\* holds nothing of the previous run, the cancel flag is false.
C10_ResetBeforeProbe ==
    uiPc \in {"s140", "s140w", "crashed"} =>
        /\ running
        /\ ~completed
        /\ progress = 0
        /\ log_text = <<>>
        /\ ~stop_flag

\* The operations that block on ffprobe, on ffmpeg or on its pipe, by the
\* thread that executes them: Command::output() in get_media_info (line 93)
\* runs inside the start handler on the UI thread; get_duration (line 145),
\* spawn (178), the read of the next line (183), kill (195) and wait (201)
\* run on the background thread.
UiBlocking == uiPc = "s140"
WorkerBlocking(w) == wpc[w] \in {"s145", "s178", "s183", "s194", "s201w"}

\* C11: every blocking operation is executed by a background thread; the UI
\* thread, which polls the state each frame, is never inside one.
C11_BlockingOnlyInBackground == ~UiBlocking

\* C12: progress lies within [0, 100] in every reachable state, also when the
\* elapsed time of a line exceeds the probed duration.
C12_ProgressWithinRange == progress >= 0 /\ progress <= 100

\* C13: for each line the thread processes: when the line carries the key
\* out_time_ms with a value e that parses and the probed duration d is
\* positive, progress becomes 100*e/(d*1,000,000); for a line with another
\* key, for a value that does not parse, and for every line when d=0,
\* progress is unchanged.  With d=10 the values 2,500,000, 5,000,000 and
\* 10,000,000 give 25, 50 and 100.
C13_ProgressUpdateRule ==
    /\ ProgressOf(2500000, 10) = 25
    /\ ProgressOf(5000000, 10) = 50
    /\ ProgressOf(10000000, 10) = 100
    /\ [][\A w \in Workers :
            (wpc[w] = "s185" /\ wpc'[w] # "s185") =>
                IF line[w].key = "out_time_ms" /\ line[w].ok /\ duration[w] > 0
                THEN /\ progress' * (duration[w] * 1000000) = 100 * line[w].ms
                     /\ (duration[w] = 10 /\ line[w].ms = 2500000) => progress' = 25
                     /\ (duration[w] = 10 /\ line[w].ms = 5000000) => progress' = 50
                     /\ (duration[w] = 10 /\ line[w].ms = 10000000) => progress' = 100
                ELSE progress' = progress]_vars

\* C13 witness: with duration 10 a frame has read the progress 50 that the
\* line out_time_ms=5000000 had set, the line out_time_ms=10000000 has now
\* set it to 100 before the run is over, and the next line, which has
\* another key, is about to be processed.
C13_Witness ==
    \E w \in Workers :
        /\ wpc[w] = "s185"
        /\ duration[w] = 10
        /\ progress = 100
        /\ seenP = 50
        /\ ~completed
        /\ line[w].key = "speed"

\* The argument that follows a flag in an argument list, "none" when the
\* list does not hold the flag.
ArgAfter(args, flag) ==
    IF \E i \in 1..(Len(args) - 1) : args[i] = flag
    THEN args[(CHOOSE i \in 1..(Len(args) - 1) : args[i] = flag) + 1]
    ELSE "none"
\* The codec and the hardware acceleration an argument list asks for.
PlanOf(args) == <<ArgAfter(args, "-c:v"), ArgAfter(args, "-hwaccel")>>

\* C14: the command is a function of the device alone: NVIDIA gives
\* (h264_nvenc, cuda), Intel (h264_qsv, qsv), AMD (h264_amf, dxva2), and CPU
\* or an unrecognized device string gives libx264 with no -hwaccel flag;
\* this holds of the command every thread has built before it spawns ffmpeg.
C14_PlanByDevice ==
    /\ PlanOf(CmdArgs("NVIDIA")) = <<"h264_nvenc", "cuda">>
    /\ PlanOf(CmdArgs("Intel")) = <<"h264_qsv", "qsv">>
    /\ PlanOf(CmdArgs("AMD")) = <<"h264_amf", "dxva2">>
    /\ PlanOf(CmdArgs("CPU")) = <<"libx264", "none">>
    /\ PlanOf(CmdArgs(UnknownDevice)) = <<"libx264", "none">>
    /\ \A w \in Workers :
          wpc[w] = "s178" =>
             /\ gpu_option[w] = "NVIDIA" => PlanOf(cmd[w]) = <<"h264_nvenc", "cuda">>
             /\ gpu_option[w] = "Intel" => PlanOf(cmd[w]) = <<"h264_qsv", "qsv">>
             /\ gpu_option[w] = "AMD" => PlanOf(cmd[w]) = <<"h264_amf", "dxva2">>
             /\ gpu_option[w] = "CPU" => PlanOf(cmd[w]) = <<"libx264", "none">>
             /\ \A v \in Workers :
                   (wpc[v] = "s178" /\ gpu_option[v] = gpu_option[w]) => cmd[v] = cmd[w]

\* C14 witness: a thread started with the device AMD has built its command
\* and is about to spawn ffmpeg.
C14_Witness ==
    \E w \in Workers :
        /\ wpc[w] = "s178"
        /\ gpu_option[w] = "AMD"
        /\ cmd[w] = <<"-hwaccel", "dxva2", "-y", "-i", "input", "-c:v", "h264_amf",
                      "output", "-progress", "pipe:1", "-nostats">>

\* C15: a cancel click made while running=false changes none of progress,
\* running, completed and log_text (it sets the cancel flag, and a second
\* click changes nothing at all), and it does not cancel a later session:
\* while a thread of a later session is active the flag is set only if cancel
\* was clicked during that session, and only then has the thread seen it.
C15_IdleCancelHasNoEffect ==
    /\ [][(uiPc = "s219" /\ cancelClicked /\ ~running /\ uiPc' # uiPc) =>
            /\ UNCHANGED <<progress, running, completed, log_text, child_process,
                           wpc, proc>>
            /\ stop_flag'
            /\ stop_flag => UNCHANGED shared]_vars
    /\ []((stop_flag /\ ActiveThreads # {}) => runCancel)
    /\ [](\A w \in Workers :
             (sawStop[w] /\ (Decided(w) \/ Settled(w))) => runCancel)

\* C15 witness: cancel was clicked while no session was running, a session
\* was started afterwards, and its thread runs with the cancel flag clear.
C15_Witness ==
    \E w \in Workers :
        /\ wpc[w] = "s145"
        /\ idleCancel
        /\ pre.stop_flag
        /\ running
        /\ ~stop_flag
        /\ ~runCancel

\* The log after the step is the log before it with text added at its end.
LogGrows ==
    /\ Len(log_text') > Len(log_text)
    /\ SubSeq(log_text', 1, Len(log_text)) = log_text

\* C16: while running=true every change of progress, completed or log_text
\* is made by a step of the background thread, and log_text changes only by
\* growing at its end; while running=false none of them changes. The start
\* handler breaks it: on the UI thread, after it has set running=true (line
\* 138), it stores completed=false (139), replaces log_text (140) and stores
\* progress=0 (141).
C16_OnlyWorkerWritesWhileRunning ==
    [][/\ (running /\ <<progress, completed, log_text>>' # <<progress, completed, log_text>>)
          => /\ wpc' # wpc
             /\ uiPc' = uiPc
             /\ log_text' # log_text => LogGrows
       /\ ~running => UNCHANGED <<progress, completed, log_text>>]_vars

\* C17: when a thread is about to set running=false (line 215) its ffmpeg
\* child has been waited for (reaped) or, in the cancel branch, killed or
\* found exited, and the handle slot is empty; hence whenever running=false
\* the slot holds no handle and no ffmpeg process is live.
C17_NoHandleOnceStopped ==
    /\ ~running => (child_process = 0 /\ LiveProcs = {})
    /\ \A w \in Workers :
          wpc[w] = "s215" =>
             /\ child_process = 0
             /\ sawStop[w] => proc[w] \in {"killed", "exited"}
             /\ ~sawStop[w] => proc[w] = "reaped"

\* C17 witness: a run that read progress lines has ended without a cancel;
\* running is false, the child was reaped and the slot is empty.
C17_Witness ==
    \E w \in Workers :
        /\ Settled(w)
        /\ ~running
        /\ anyRead
        /\ ~runCancel
        /\ proc[w] = "reaped"
        /\ child_process = 0

\* The positions of a thread from the end of the read loop through the
\* cancel branch to its return.
CancelPath == {"s193", "s194", "s198", "s199", "s215", "done"}
\* The thread has left the read loop with the cancel flag set, or has seen
\* it set at line 193.
Stopping(w) ==
    /\ wpc[w] \in CancelPath
    /\ sawStop[w] \/ (wpc[w] = "s193" /\ stop_flag)

\* C18: the thread loads the cancel flag once for each line the reader yields,
\* before it processes the line (a line is applied only from line 184 with
\* the flag clear); when the load sees the flag set the line is not applied
\* and the loop is left; from then on the thread reads and applies no line,
\* and the only change it makes to progress is the reset to 0.
C18_NoLineAfterStopSeen ==
    /\ [][\A w \in Workers :
            /\ (wpc[w] = "s183" /\ wpc'[w] # "s183") => wpc'[w] \in {"s184", "s193"}
            /\ (wpc'[w] = "s185" /\ wpc[w] # "s185") => (wpc[w] = "s184" /\ ~stop_flag)
            /\ (wpc[w] = "s184" /\ stop_flag /\ wpc'[w] # "s184") =>
                  /\ wpc'[w] = "s193"
                  /\ progress' = progress
                  /\ Stopping(w)'
            /\ (Stopping(w) /\ wpc[w] # "done") =>
                  /\ Stopping(w)'
                  /\ progress' = progress \/ (progress' = 0 /\ wpc[w] = "s199")]_vars
    /\ [](\A w \in Workers : (wpc[w] = "s193" /\ stdoutOpen[w]) => stop_flag)

\* C18 witness: with the progress at 25 the thread saw the flag set at line
\* 184 and left the loop; ffmpeg is still live and the line the thread had
\* read was not applied.
C18_Witness ==
    \E w \in Workers :
        /\ wpc[w] = "s193"
        /\ proc[w] = "live"
        /\ stdoutOpen[w]
        /\ stop_flag
        /\ anyRead
        /\ progress = 25
        /\ line[w] = NoLine

\* The number of terminal markers in a log.
MarkerCount(log) == Cardinality({i \in DOMAIN log : log[i] \in Markers})
\* The positions of a thread from the spawn of ffmpeg to its first push of a
\* marker, and those from there to its return.
BeforeMarker ==
    {"s179", "s181", "s183", "s184", "s185", "s193", "s194", "s198", "s201", "s201w",
     "s203", "s205", "s209", "s210", "s212"}
AfterMarker == {"s199", "s206", "s207", "s215"}

\* C19: a run that has spawned ffmpeg has pushed no marker until its branch
\* pushes one, and exactly one when the thread returns; the check of line
\* 193 takes the cancel branch exactly when the flag is set at that moment,
\* and the marker is the cancelled one exactly when it did, also when ffmpeg
\* had already exited by itself; a cancel clicked after the check leaves the
\* marker to the classification of the output file.
C19_OneMarkerByFlagAtCheck ==
    /\ [][\A w \in Workers :
            (wpc[w] = "s193" /\ wpc'[w] # "s193") =>
                /\ sawStop'[w] = stop_flag
                /\ wpc'[w] = (IF stop_flag THEN "s194" ELSE "s201")]_vars
    /\ [](\A w \in Workers :
            /\ (wpc[w] \in BeforeMarker /\ ~InStartHandler) =>
                   (MarkerCount(log_text) = 0 /\ log_text = <<MediaInfo>>)
            /\ (wpc[w] \in AfterMarker \/ Settled(w)) =>
                   /\ MarkerCount(log_text) = 1
                   /\ Len(log_text) = 2
                   /\ log_text[1] = MediaInfo
                   /\ (log_text[2] = MarkCancelled) = sawStop[w]
                   /\ (~sawStop[w] /\ fileOk[w] = "bad") => log_text[2] = MarkFailed
                   /\ (~sawStop[w] /\ fileOk[w] = "good") => log_text[2] = MarkCompleted)

\* C19 witness: ffmpeg exited by itself with status 0 and a non-empty output
\* file, cancel was clicked before the thread made the check of line 193,
\* and the run ended Cancelled.
C19_Witness ==
    \E w \in Workers :
        /\ Settled(w)
        /\ sawStop[w]
        /\ proc[w] = "exited"
        /\ exitCode[w] = 0
        /\ outFile = "nonempty"
        /\ anyRead
        /\ CancelledState

\* The threads that hold a mutex; 0 stands for the UI thread.
Holders(l) ==
    (IF l \in UiHolds THEN {0} ELSE {}) \cup {w \in Workers : l \in WkHolds(w)}
\* A thread whose next statement locks a mutex that another thread holds.
UiBlocked == ~UiCanLock
WkBlocked(w) == Active(w) /\ ~WkCanLock(w)

\* C20: the UI thread and the background thread never deadlock on the five
\* mutexes.  No mutex has two holders; the UI thread holds no mutex when it
\* requests one; the background thread holds log_text when it locks progress
\* (lines 199, 207) or completed (206) and holds child_process throughout the
\* read loop; a thread that waits for a mutex waits for log_text, and the
\* thread that holds it is not waiting; and every request for log_text, by
\* the background thread (lines 197, 204, 211) or by the UI thread (line
\* 228), is eventually granted.
C20_NoDeadlockOnMutexes ==
    /\ [](\A l \in Locks : Cardinality(Holders(l)) <= 1)
    /\ [](UiWants # {} => UiHolds = {})
    /\ [](\A w \in Workers :
            /\ wpc[w] \in {"s199", "s207"} =>
                  ("log_text" \in WkHolds(w) /\ WkWants(w) = {"progress"})
            /\ wpc[w] = "s206" =>
                  ("log_text" \in WkHolds(w) /\ WkWants(w) = {"completed"})
            /\ wpc[w] \in {"s183", "s184", "s185"} => "child_process" \in WkHolds(w)
            /\ WkBlocked(w) =>
                  (WkWants(w) = {"log_text"} /\ Holders("log_text") = {0} /\ UiCanLock))
    /\ [](UiBlocked =>
            /\ UiWants = {"log_text"}
            /\ \A w \in Holders("log_text") : w # 0 /\ WkCanLock(w))
    /\ ((\E w \in Workers : wpc[w] \in {"s198", "s205", "s212"})
           ~> (\E w \in Workers : wpc[w] \in {"s199", "s206", "s215"}))
    /\ ((uiPc = "s228") ~> (uiPc = "s229"))

\* C20 witness: the background thread holds log_text after pushing the
\* cancelled marker and is about to lock progress, while the UI thread waits
\* at line 228 for log_text.
C20_Witness ==
    \E w \in Workers :
        /\ wpc[w] = "s199"
        /\ uiPc = "s228"
        /\ "log_text" \in WkHolds(w)
        /\ UiBlocked
        /\ WkCanLock(w)

====
